---------------------------- MODULE Spec2Model ----------------------------
(***************************************************************************)
(* Model of src/app.py: the Flask document-translation service.           *)
(*                                                                         *)
(* The process state is the module-level chat session (line 130), the     *)
(* upload directory and the two fixed output paths on local disk.  The    *)
(* POST /translate handler (lines 164-219) is modelled statement by       *)
(* statement: each worker thread of the server runs one request at a      *)
(* time and every statement that touches the disk or the chat session is  *)
(* one step, so that requests of different threads interleave as they do  *)
(* in the threaded server.  Failures of the environment (disk, PDF        *)
(* library, model API) are choices of the step that can raise.             *)
(*                                                                         *)
(* A request's record holds the handler's local variables; a local that   *)
(* the handler does not read again is reset, which changes no behaviour.  *)
(*                                                                         *)
(* Text is a sequence of one-character strings.                            *)
(***************************************************************************)
EXTENDS Naturals, Sequences, FiniteSets

\* ------------------------------------------------------------------ bounds

\* Number of requests received in one behaviour.
MaxRequests == 2

\* The server's worker threads (app.run serves each request in its own thread).
Workers == {"w1", "w2"}

\* ------------------------------------------------------- program constants

\* os.path.join(UPLOAD_FOLDER, filename) prefixes the name with "uploads/".
UPLOAD_FOLDER == <<"u", "p", "l", "o", "a", "d", "s", "/">>

OUTPUT_TXT == "translated_output.txt"

OUTPUT_PDF == "translated_output.pdf"

\* add_text_block: lines longer than LongLine are wrapped at WrapWidth.
LongLine == 100

WrapWidth == 80

\* A form field that the request does not carry (request.form.get -> None).
Absent == "<absent>"

\* ------------------------------------------------------------- input sets

\* File names a client may declare for the uploaded part.
FileNames ==
    { <<>>,
      <<"a", ".", "t", "x", "t">>,
      <<".", ".", "/", "a", ".", "t", "x", "t">>,
      <<"a", ".", "p", "d", "f">>,
      <<".", "t", "x", "t">>,
      <<".", ".">> }

Languages == {Absent, "", "fr"}

Formats == {Absent, "txt", "pdf"}

\* Uploaded bytes: a UTF-8 text, or a PDF document given by its pages' text.
Utf8Upload == [kind |-> "utf8", pages |-> << <<"h", "i">> >>]

PdfUpload == [kind |-> "pdfdoc", pages |-> << <<"p">>, <<"q">> >>]

Contents == {Utf8Upload, PdfUpload}

\* Replies of the model.
Texts == { <<"x">>, <<"y", "\n", "\n", "z">> }

NoUpload == [kind |-> "none", pages |-> <<>>]

\* ---------------------------------------------------------- text helpers

EndsWith(s, suf) ==
    /\ Len(s) >= Len(suf)
    /\ SubSeq(s, Len(s) - Len(suf) + 1, Len(s)) = suf

RECURSIVE Join(_, _)
\* sep.join(parts)
Join(parts, sep) ==
    IF parts = <<>> THEN <<>>
    ELSE IF Len(parts) = 1 THEN parts[1]
    ELSE parts[1] \o sep \o Join(Tail(parts), sep)

RECURSIVE SplitOn(_, _, _)
\* s.split(c), cur being the piece under construction
SplitOn(s, c, cur) ==
    IF s = <<>> THEN <<cur>>
    ELSE IF Head(s) = c THEN <<cur>> \o SplitOn(Tail(s), c, <<>>)
    ELSE SplitOn(Tail(s), c, Append(cur, Head(s)))

Whitespace == {" ", "\n", "\t"}

RECURSIVE Filter(_, _)
Filter(s, keep) ==
    IF s = <<>> THEN <<>>
    ELSE IF Head(s) \in keep THEN <<Head(s)>> \o Filter(Tail(s), keep)
    ELSE Filter(Tail(s), keep)

\* para.strip() is non-empty
NonBlank(para) == \E i \in 1..Len(para) : para[i] \notin Whitespace

RECURSIVE LStrip(_, _)
LStrip(s, cs) ==
    IF s # <<>> /\ Head(s) \in cs THEN LStrip(Tail(s), cs) ELSE s

RECURSIVE RStrip(_, _)
RStrip(s, cs) ==
    IF s # <<>> /\ s[Len(s)] \in cs THEN RStrip(SubSeq(s, 1, Len(s) - 1), cs) ELSE s

Strip(s, cs) == RStrip(LStrip(s, cs), cs)

RECURSIVE Words(_, _)
\* s.split(): the maximal runs of non-whitespace characters
Words(s, cur) ==
    IF s = <<>> THEN (IF cur = <<>> THEN <<>> ELSE <<cur>>)
    ELSE IF Head(s) \in Whitespace
         THEN (IF cur = <<>> THEN <<>> ELSE <<cur>>) \o Words(Tail(s), <<>>)
         ELSE Words(Tail(s), Append(cur, Head(s)))

SafeChars == {"a", "b", "c", "d", "f", "h", "i", "o", "p", "t", "x", ".", "_", "-"}

\* werkzeug.utils.secure_filename as the handler uses it (line 181): path
\* separators become spaces, whitespace runs become "_", characters outside
\* [A-Za-z0-9_.-] are dropped, leading and trailing "." and "_" are stripped.
secure_filename(name) ==
    LET nosep == [i \in 1..Len(name) |-> IF name[i] = "/" THEN " " ELSE name[i]]
        joined == Join(Words(nosep, <<>>), <<"_">>)
    IN Strip(Filter(joined, SafeChars), {".", "_"})


\* ------------------------------------------------------- PDF output utility

Paragraph(line) == [t |-> "Paragraph", line |-> line]

Spacer == [t |-> "Spacer", line |-> <<>>]

RECURSIVE Chunks(_, _)
\* textwrap.wrap(para, width) for a line without whitespace: pieces of `width`
\* characters (the texts of this model hold no line longer than LongLine).
Chunks(line, width) ==
    IF Len(line) <= width THEN <<line>>
    ELSE <<SubSeq(line, 1, width)>> \o Chunks(SubSeq(line, width + 1, Len(line)), width)

RECURSIVE Blocks(_)
\* the story elements add_text_block appends for the paragraphs `paras`
Blocks(paras) ==
    IF paras = <<>> THEN <<>>
    ELSE LET para == Head(paras)
             here == IF NonBlank(para)
                     THEN IF Len(para) > LongLine
                          THEN LET w == Chunks(para, WrapWidth)
                               IN [i \in 1..Len(w) |-> Paragraph(w[i])]
                          ELSE <<Paragraph(para)>>
                     ELSE <<Spacer>>
         IN here \o Blocks(Tail(paras))

\* TranslatedPDF.add_text_block when no Paragraph raises
add_text_block(text) == Blocks(SplitOn(text, "\n", <<>>))

FallbackParagraph ==
    [t |-> "Paragraph", line |-> <<"Translation completed. Text encoding issues prevented proper formatting.">>]

\* TranslatedPDF.add_text_block when building the (k+1)-th story element
\* raises: the first k elements stay and the fallback paragraph follows.
add_text_block_failing(text, k) ==
    Append(SubSeq(add_text_block(text), 1, k), FallbackParagraph)

\* Files on disk at the two fixed output paths.  `by` is the request that
\* last wrote the file (0: nobody), kept to tell the artifacts apart.
NoTxt == [exists |-> FALSE, data |-> <<>>, by |-> 0]

NoPdf == [exists |-> FALSE, kind |-> "none", story |-> <<>>, by |-> 0]

\* doc.build(story) writing the document
BuiltPdf(story, id) == [exists |-> TRUE, kind |-> "document", story |-> story, by |-> id]

\* _create_fallback_pdf: the canvas with the four fixed messages
PlaceholderPdf(id) == [exists |-> TRUE, kind |-> "placeholder", story |-> <<>>, by |-> id]

\* ------------------------------------------------- text file output utility

\* Mutant of OpenW: the file is opened without being truncated.
OpenKeep(old, id) == [exists |-> TRUE, data |-> old.data, by |-> id]

\* open(filename, 'w'): the file exists afterwards and is truncated
OpenW(old, id) == [exists |-> TRUE, data |-> <<>>, by |-> id]

\* f.write(text) at the start of the file opened by OpenW, flushed on close:
\* it overwrites from offset 0 and keeps what lies beyond the written text.
WriteAt0(old, text, id) ==
    [exists |-> TRUE,
     data |-> text \o SubSeq(old.data, Len(text) + 1, Len(old.data)),
     by |-> id]

\* -------------------------------------------------------------- extraction

\* Mutant of extract_text: every file that is not a PDF is read as text.
extract_text_lenient(file_path, bytes) ==
    IF EndsWith(file_path, <<".", "p", "d", "f">>)
    THEN IF bytes.kind = "pdfdoc"
         THEN [ok |-> TRUE, text |-> Join(bytes.pages, <<"\n">>), error |-> ""]
         ELSE [ok |-> FALSE, text |-> <<>>, error |-> "FileDataError"]
    ELSE IF bytes.kind = "utf8"
         THEN [ok |-> TRUE, text |-> bytes.pages[1], error |-> ""]
         ELSE [ok |-> FALSE, text |-> <<>>, error |-> "UnicodeDecodeError"]

\* extract_text(file_path) on the bytes found at file_path:
\* [ok, text] or [~ok, the exception's message].
extract_text(file_path, bytes) ==
    IF EndsWith(file_path, <<".", "t", "x", "t">>)
    THEN IF bytes.kind = "utf8"
         THEN [ok |-> TRUE, text |-> bytes.pages[1], error |-> ""]
         ELSE [ok |-> FALSE, text |-> <<>>, error |-> "UnicodeDecodeError"]
    ELSE IF EndsWith(file_path, <<".", "p", "d", "f">>)
    THEN IF bytes.kind = "pdfdoc"
         THEN [ok |-> TRUE, text |-> Join(bytes.pages, <<"\n">>), error |-> ""]
         ELSE [ok |-> FALSE, text |-> <<>>, error |-> "FileDataError"]
    ELSE [ok |-> FALSE, text |-> <<>>, error |-> "Unsupported file type"]

\* ------------------------------------------------------------- translation

\* the f-string of translate_text: the fixed instruction around language and text
Prompt(text, target_language) ==
    <<"Detect the language of the following content and translate it into ",
      target_language, text>>

\* Mutant of ChatReady: the check of the session is missing.
ChatUnchecked(c) == TRUE

\* `if not chat`
ChatReady(c) == c

\* Mutant of RecordTurn: every call starts from a fresh history.
RecordTurnFresh(h, prompt) == <<prompt>>

\* chat.send_message keeping a turn in the session's history
RecordTurn(h, prompt) == Append(h, prompt)

\* ------------------------------------------------------------- responses

\* return "<message>", status
TextResponse(message, status) ==
    [status |-> status, attachment |-> FALSE, name |-> <<>>,
     body |-> [kind |-> "message", text |-> message]]

\* Mutant of ErrorResponse: the exception's message is not passed on.
ErrorResponseOpaque(e) == TextResponse(<<"Internal Server Error">>, 500)

\* return f"Error: {e}", 500
ErrorResponse(e) == TextResponse(<<"Error: ", e>>, 500)

\* send_file(path, as_attachment=True, download_name=...)
FileResponse(file, kind, name) ==
    [status |-> 200, attachment |-> TRUE, name |-> name,
     body |-> [kind |-> kind, file |-> file]]

NoResponse == [status |-> 0, attachment |-> FALSE, name |-> <<>>,
               body |-> [kind |-> "none"]]

\* Mutant of LanguageMissing: `target_language is None`.
LanguageIsNone(target_language) == target_language = Absent

\* `not target_language`
LanguageMissing(target_language) ==
    target_language = Absent \/ target_language = ""

\* request.form.get('format', 'pdf')
OutputFormat(format) == IF format = Absent THEN "pdf" ELSE format


\* ------------------------------------------------------------------- state

VARIABLES
    chat,       \* the module-level session exists (initialize_vertex_ai did not return None)
    history,    \* the session's conversation history: the prompts it keeps, in order
    uploads,    \* the upload directory: file path -> bytes
    txtFile,    \* the file at OUTPUT_TXT
    pdfFile,    \* the file at OUTPUT_PDF
    req,        \* per worker thread: the request it is handling, with the handler's locals
    nreq,       \* requests received so far; a request's id is its arrival number
    calls       \* log of chat.send_message calls: [id, prompt, replied]

vars == <<chat, history, uploads, txtFile, pdfFile, req, nreq, calls>>

\* The paths uploads are saved under (the upload folder itself is a directory).
UploadPaths == {UPLOAD_FOLDER \o secure_filename(n) : n \in FileNames} \ {UPLOAD_FOLDER}

\* The path ends in neither ".txt" nor ".pdf".
UnsupportedPath(file_path) ==
    /\ ~EndsWith(file_path, <<".", "t", "x", "t">>)
    /\ ~EndsWith(file_path, <<".", "p", "d", "f">>)

\* The multipart parts a request may carry under the name 'file'.
NoFile == [present |-> FALSE, filename |-> <<>>, bytes |-> NoUpload]

Files == {NoFile} \cup {[present |-> TRUE, filename |-> n, bytes |-> b] : n \in FileNames, b \in Contents}

\* A worker thread that handles no request.  Besides the handler's locals the
\* record keeps, for the properties below: what the request carried (given),
\* how far it got (stage: none, validated, saved, extracted, translated), the
\* number of send_message calls it made (sends), the exceptions raised while
\* it was handled (raised), the output paths it wrote (wrote) and whether
\* the path of its upload ends in ".txt" or ".pdf" (supported).
Idle ==
    [pc |-> "idle", id |-> 0,
     file |-> NoFile, language |-> Absent,
     output_format |-> "", file_path |-> <<>>, original_text |-> <<>>,
     translated |-> <<>>, story |-> <<>>, fallback |-> FALSE, pdf_error |-> "",
     resp |-> NoResponse,
     given |-> [file |-> FALSE, filename |-> FALSE, language |-> FALSE],
     supported |-> FALSE, sends |-> 0, stage |-> "none", raised |-> <<>>, wrote |-> {}]

\* initialize_vertex_ai() at import: a session with an empty history, or None.
Init ==
    /\ chat \in BOOLEAN
    /\ history = <<>>
    /\ uploads = [p \in UploadPaths |-> NoUpload]
    /\ txtFile = NoTxt
    /\ pdfFile = NoPdf
    /\ req = [w \in Workers |-> Idle]
    /\ nreq = 0
    /\ calls = <<>>

\* The handler returns `response`.
Return(r, response) == [r EXCEPT !.pc = "done", !.resp = response]

\* An exception `e` raised at `site` reaches the handler's outer except clause.
Raise(r, site, e) ==
    [r EXCEPT !.pc = "done", !.resp = ErrorResponse(e),
              !.raised = Append(@, [site |-> site, e |-> e])]

\* Mutant of ModelFailure: the handler calls translate_text again.
ModelRetry(r, e) == [r EXCEPT !.raised = Append(@, [site |-> "model", e |-> e])]

\* translate_text raised: the handler's except clause answers, nothing is retried.
ModelFailure(r, e) == Raise(r, "model", e)

\* Lines 167-182: the three checks, the format default and the upload's path.
Validate(r, format) ==
    IF ~r.file.present THEN Return(r, TextResponse(<<"No file uploaded">>, 400))
    ELSE IF r.file.filename = <<>> THEN Return(r, TextResponse(<<"Empty filename">>, 400))
    ELSE IF LanguageMissing(r.language)
         THEN Return(r, TextResponse(<<"No target language specified">>, 400))
    ELSE LET file_path == UPLOAD_FOLDER \o secure_filename(r.file.filename) IN
         [r EXCEPT !.pc = "save", !.stage = "validated",
                   !.output_format = OutputFormat(format),
                   !.file_path = file_path,
                   !.supported = ~UnsupportedPath(file_path)]

\* A POST /translate request arrives at a worker thread that handles none
\* (it is idle, or has returned its last response); the handler runs up to
\* its first statement that touches the disk.
Receive(w) ==
    /\ req[w].pc \in {"idle", "done"}
    /\ nreq < MaxRequests
    /\ \E file \in Files, language \in Languages, format \in Formats :
          req' = [req EXCEPT ![w] =
                    Validate([Idle EXCEPT !.pc = "validate", !.id = nreq + 1,
                                          !.file = file, !.language = language,
                                          !.given = [file |-> file.present,
                                                     filename |-> file.filename # <<>>,
                                                     language |-> language \notin {Absent, ""}]],
                             format)]
    /\ nreq' = nreq + 1
    /\ UNCHANGED <<chat, history, uploads, txtFile, pdfFile, calls>>

\* The upload object once it has been saved: the handler does not read it again.
Consumed(file) == [file EXCEPT !.filename = <<>>, !.bytes = NoUpload]

\* Line 183: uploaded_file.save(file_path).  Saving to the upload folder
\* itself (an empty secured name) raises; any save may fail on the disk.
Save(w) ==
    LET r == req[w] IN
    /\ r.pc = "save"
    /\ \/ /\ r.file_path \in UploadPaths
          /\ uploads' = [uploads EXCEPT ![r.file_path] = r.file.bytes]
          /\ req' = [req EXCEPT ![w] =
                       [r EXCEPT !.pc = "extract", !.stage = "saved", !.file = Consumed(@)]]
       \/ /\ r.file_path \notin UploadPaths
          /\ req' = [req EXCEPT ![w] = Raise(r, "save", "IsADirectoryError")]
          /\ UNCHANGED uploads
       \/ /\ r.file_path \in UploadPaths
          /\ req' = [req EXCEPT ![w] = Raise(r, "save", "OSError")]
          /\ UNCHANGED uploads
    /\ UNCHANGED <<chat, history, txtFile, pdfFile, nreq, calls>>

\* Line 186: extract_text(file_path) reads what is at file_path now.
Extract(w) ==
    LET r == req[w]
        got == extract_text(r.file_path, uploads[r.file_path])
    IN
    /\ r.pc = "extract"
    /\ req' = [req EXCEPT ![w] =
         IF got.ok
         THEN [r EXCEPT !.pc = "translate", !.stage = "extracted",
                        !.file_path = <<>>, !.original_text = got.text]
         ELSE Raise(r, "extract", got.error)]
    /\ UNCHANGED <<chat, history, uploads, txtFile, pdfFile, nreq, calls>>

\* Where the handler goes with the translated text (line 190).
AfterTranslate(output_format) == IF output_format = "txt" THEN "txt_open" ELSE "pdf_layout"

\* Line 187, translate_text: no session raises; otherwise one send_message
\* on the shared session, which returns a reply whose text is read, or
\* raises, or returns a reply whose .text raises.  A call that raised may
\* or may not have left its prompt in the session.
Translate(w) ==
    LET r == req[w]
        prompt == Prompt(r.original_text, r.language)
        sent == [r EXCEPT !.sends = @ + 1]
    IN
    /\ r.pc = "translate"
    /\ \/ /\ ~ChatReady(chat)
          /\ req' = [req EXCEPT ![w] = ModelFailure(r, "Gemini not initialized")]
          /\ UNCHANGED <<history, calls>>
       \/ /\ ChatReady(chat)
          /\ \E text \in Texts :
               req' = [req EXCEPT ![w] =
                         [sent EXCEPT !.pc = AfterTranslate(r.output_format),
                                      !.stage = "translated", !.original_text = <<>>,
                                      !.translated = text]]
          /\ history' = RecordTurn(history, prompt)
          /\ calls' = Append(calls, [id |-> r.id, prompt |-> prompt, replied |-> TRUE])
       \/ /\ ChatReady(chat)
          /\ req' = [req EXCEPT ![w] = ModelFailure(sent, "send_message failed")]
          /\ history' \in {history, RecordTurn(history, prompt)}
          /\ calls' = Append(calls, [id |-> r.id, prompt |-> prompt, replied |-> FALSE])
       \/ /\ ChatReady(chat)
          /\ req' = [req EXCEPT ![w] = ModelFailure(sent, "response has no text")]
          /\ history' = RecordTurn(history, prompt)
          /\ calls' = Append(calls, [id |-> r.id, prompt |-> prompt, replied |-> TRUE])
    /\ UNCHANGED <<chat, uploads, txtFile, pdfFile, nreq>>


\* f"translated_{target_language}.txt" / ".pdf"
DownloadName(target_language, ext) == <<"translated_", target_language, ext>>

\* create_text_file returned False: lines 197 and 215.
TextFileFailed(r, e) ==
    [Return(r, IF r.fallback
               THEN TextResponse(<<"Error creating output file: ", r.pdf_error>>, 500)
               ELSE TextResponse(<<"Error creating text file">>, 500))
       EXCEPT !.raised = Append(@, [site |-> "textfile", e |-> e])]

\* Line 114 (called at lines 193 and 211): open the text output path for writing.
TxtOpen(w) ==
    LET r == req[w] IN
    /\ r.pc = "txt_open"
    /\ \/ /\ txtFile' = OpenW(txtFile, r.id)
          /\ req' = [req EXCEPT ![w] = [r EXCEPT !.pc = "txt_write"]]
       \/ /\ req' = [req EXCEPT ![w] = TextFileFailed(r, "PermissionError")]
          /\ UNCHANGED txtFile
    /\ UNCHANGED <<chat, history, uploads, pdfFile, nreq, calls>>

\* Lines 115-116: write the translated text and close the file.
TxtWrite(w) ==
    LET r == req[w] IN
    /\ r.pc = "txt_write"
    /\ \/ /\ txtFile' = WriteAt0(txtFile, r.translated, r.id)
          /\ req' = [req EXCEPT ![w] = [r EXCEPT !.pc = "txt_send", !.wrote = @ \cup {"txt"}]]
       \/ /\ req' = [req EXCEPT ![w] = TextFileFailed(r, "OSError")]
          /\ UNCHANGED txtFile
    /\ UNCHANGED <<chat, history, uploads, pdfFile, nreq, calls>>

\* Mutant of TxtSend: the response is made from the text in memory.
TxtSendFromMemory(w) ==
    LET r == req[w] IN
    /\ r.pc = "txt_send"
    /\ req' = [req EXCEPT ![w] =
                 Return(r, FileResponse([exists |-> TRUE, data |-> r.translated, by |-> r.id],
                                        "txt", DownloadName(r.language, ".txt")))]
    /\ UNCHANGED <<chat, history, uploads, txtFile, pdfFile, nreq, calls>>

\* Lines 194 and 212: send_file(output_file, ...) reads the file at the path.
TxtSend(w) ==
    LET r == req[w] IN
    /\ r.pc = "txt_send"
    /\ \/ req' = [req EXCEPT ![w] =
                    Return(r, FileResponse(txtFile, "txt", DownloadName(r.language, ".txt")))]
       \/ req' = [req EXCEPT ![w] = Raise(r, "send_txt", "OSError")]
    /\ UNCHANGED <<chat, history, uploads, txtFile, pdfFile, nreq, calls>>

\* Lines 202-203: TranslatedPDF(output_pdf) and add_text_block(translated),
\* which keeps its own exceptions (lines 66-71).
PdfLayout(w) ==
    LET r == req[w] IN
    /\ r.pc = "pdf_layout"
    /\ \/ req' = [req EXCEPT ![w] =
                    [r EXCEPT !.pc = "pdf_build", !.story = add_text_block(r.translated)]]
       \/ \E k \in 0..(Len(add_text_block(r.translated)) - 1) :
            req' = [req EXCEPT ![w] =
                      [r EXCEPT !.pc = "pdf_build",
                                !.story = add_text_block_failing(r.translated, k),
                                !.raised = Append(@, [site |-> "layout", e |-> "ValueError"])]]
    /\ UNCHANGED <<chat, history, uploads, txtFile, pdfFile, nreq, calls>>

\* Lines 75-80, save(): doc.build(story) writes the document, or raises
\* before anything is written and _create_fallback_pdf is called.
PdfBuild(w) ==
    LET r == req[w] IN
    /\ r.pc = "pdf_build"
    /\ \/ /\ pdfFile' = BuiltPdf(r.story, r.id)
          /\ req' = [req EXCEPT ![w] =
                       [r EXCEPT !.pc = "pdf_send", !.story = <<>>, !.wrote = @ \cup {"pdf"}]]
       \/ /\ req' = [req EXCEPT ![w] =
                       [r EXCEPT !.pc = "pdf_fallback", !.story = <<>>,
                                 !.raised = Append(@, [site |-> "build", e |-> "LayoutError"])]]
          /\ UNCHANGED pdfFile
    /\ UNCHANGED <<chat, history, uploads, txtFile, nreq, calls>>

\* Lines 84-108, _create_fallback_pdf: the placeholder canvas is saved, or
\* the exception is logged and dropped; save() returns normally either way.
PdfFallback(w) ==
    LET r == req[w] IN
    /\ r.pc = "pdf_fallback"
    /\ \/ /\ pdfFile' = PlaceholderPdf(r.id)
          /\ req' = [req EXCEPT ![w] = [r EXCEPT !.pc = "pdf_send", !.wrote = @ \cup {"pdf"}]]
       \/ /\ req' = [req EXCEPT ![w] =
                       [r EXCEPT !.pc = "pdf_send",
                                 !.raised = Append(@, [site |-> "placeholder", e |-> "OSError"])]]
          /\ UNCHANGED pdfFile
    /\ UNCHANGED <<chat, history, uploads, txtFile, nreq, calls>>

\* The inner except clause (lines 207-210): remember the error, go on to the text file.
PdfFailed(r, e) ==
    [r EXCEPT !.pc = "txt_open", !.fallback = TRUE, !.pdf_error = e,
              !.raised = Append(@, [site |-> "send_pdf", e |-> e])]

\* Line 205: send_file(output_pdf, ...) reads whatever file is at the path;
\* a missing file raises inside the inner try.
PdfSend(w) ==
    LET r == req[w] IN
    /\ r.pc = "pdf_send"
    /\ \/ /\ pdfFile.exists
          /\ req' = [req EXCEPT ![w] =
                       Return(r, FileResponse(pdfFile, "pdf", DownloadName(r.language, ".pdf")))]
       \/ /\ ~pdfFile.exists
          /\ req' = [req EXCEPT ![w] = PdfFailed(r, "FileNotFoundError")]
       \/ /\ pdfFile.exists
          /\ req' = [req EXCEPT ![w] = PdfFailed(r, "OSError")]
    /\ UNCHANGED <<chat, history, uploads, txtFile, pdfFile, nreq, calls>>

\* The steps of a request in progress.
Handle(w) ==
    \/ Save(w)
    \/ Extract(w)
    \/ Translate(w)
    \/ TxtOpen(w)
    \/ TxtWrite(w)
    \/ TxtSend(w)
    \/ PdfLayout(w)
    \/ PdfBuild(w)
    \/ PdfFallback(w)
    \/ PdfSend(w)

Next == \E w \in Workers : Receive(w) \/ Handle(w)

\* The threaded server: requests of different worker threads interleave.
Spec == Init /\ [][Next]_vars

\* No request is in flight.
AllIdle == \A w \in Workers : req[w].pc \in {"idle", "done"}

\* Sequential execution: a request arrives only when no other is in flight.
SeqReceive(w) == AllIdle /\ w = "w1" /\ Receive(w)

SeqNext == \E w \in Workers : SeqReceive(w) \/ Handle(w)

SeqSpec == Init /\ [][SeqNext]_vars


\* ------------------------------------------------------------- properties

\* The requests whose handler has returned and whose response is still held.
Answered == {w \in Workers : req[w].pc = "done"}

\* The sites at which request r saw an exception.
Sites(r) == {r.raised[i].site : i \in 1..Len(r.raised)}

IsTxtAttachment(resp) == resp.status = 200 /\ resp.attachment /\ resp.body.kind = "txt"

IsPdfAttachment(resp) == resp.status = 200 /\ resp.attachment /\ resp.body.kind = "pdf"

\* The request asked for text output and the model returned its text.
TxtRequested(r) ==
    r.stage = "translated" /\ r.output_format = "txt"

\* The request went to the PDF branch (line 198) with the model's text.
PdfRequested(r) ==
    r.stage = "translated" /\ r.output_format # "txt"

\* C1 as stated: in sequential execution, a format=txt request that passed
\* validation and extraction and got text T from the model is answered with a
\* text attachment whose body is exactly T.
C1_TxtBodyIsModelText ==
    \A w \in Answered :
        TxtRequested(req[w]) =>
            /\ IsTxtAttachment(req[w].resp)
            /\ req[w].resp.body.file.data = req[w].translated

\* C1 amended: in sequential execution, such a request is answered with a text
\* attachment whose body is exactly T and whose name is translated_<language>.txt
\* when writing and sending the text file raise nothing, and with a 500 plain
\* text response otherwise.
C1_TxtBodyIsModelTextUnlessIOError ==
    \A w \in Answered :
        TxtRequested(req[w]) =>
            IF req[w].raised = <<>>
            THEN /\ IsTxtAttachment(req[w].resp)
                 /\ req[w].resp.body.file.data = req[w].translated
                 /\ req[w].resp.name = DownloadName(req[w].language, ".txt")
            ELSE /\ req[w].resp.status = 500
                 /\ ~req[w].resp.attachment

\* C1 witness: the second request of a run is answered with its own, shorter
\* text after an earlier request wrote the text output path.
C1_Witness ==
    \E w \in Answered :
        /\ TxtRequested(req[w])
        /\ req[w].id = 2
        /\ IsTxtAttachment(req[w].resp)
        /\ req[w].translated = <<"x">>
        /\ req[w].resp.body.file.data = <<"x">>

\* C2: when the session is None, a request that carries a file with a
\* non-empty filename and a non-empty language is answered with a 5xx error
\* and writes no output artifact, at any point of its handling.
C2_NoSessionGives500 ==
    \A w \in Workers :
        LET r == req[w] IN
        (~chat /\ r.given.file /\ r.given.filename /\ r.given.language) =>
            /\ r.wrote = {}
            /\ r.sends = 0
            /\ (r.id # 0 => txtFile.by # r.id /\ pdfFile.by # r.id)
            /\ r.pc = "done" =>
                 (r.resp.status \in 500..599 /\ ~r.resp.attachment)

\* C2 witness: without a session, a well-formed request reached translate_text
\* and was answered with the RuntimeError's message.
C2_Witness ==
    \E w \in Answered :
        /\ ~chat
        /\ req[w].given.file /\ req[w].given.filename /\ req[w].given.language
        /\ req[w].stage = "extracted"
        /\ req[w].resp = TextResponse(<<"Error: ", "Gemini not initialized">>, 500)

\* C3: a request whose language field is absent or empty is answered with a
\* 4xx response, whatever else it carries and whether or not the session exists.
C3_MissingLanguageGives400 ==
    \A w \in Answered :
        ~req[w].given.language =>
            /\ req[w].resp.status \in 400..499
            /\ ~req[w].resp.attachment

\* C3 witness: a request with a named file and an empty language was refused
\* by the third check.
C3_Witness ==
    \E w \in Answered :
        /\ req[w].given.file /\ req[w].given.filename
        /\ req[w].language = ""
        /\ req[w].resp = TextResponse(<<"No target language specified">>, 400)

\* C4: a request that passed validation and whose upload was saved under a
\* name ending in neither ".txt" nor ".pdf" never gets past extraction: it
\* sends nothing to the model, writes no output artifact, and its response
\* is the error carrying "Unsupported file type".
C4_UnsupportedSuffixRejected ==
    \A w \in Workers :
        LET r == req[w] IN
        (r.stage \notin {"none", "validated"} /\ ~r.supported) =>
            /\ r.pc \in {"extract", "done"}
            /\ r.stage = "saved"
            /\ UnsupportedPath(r.file_path)
            /\ r.sends = 0
            /\ r.wrote = {}
            /\ txtFile.by # r.id /\ pdfFile.by # r.id
            /\ r.pc = "done" =>
                 r.resp = TextResponse(<<"Error: ", "Unsupported file type">>, 500)

\* C4 witness: an upload named ".txt", saved as "uploads/txt", was rejected.
C4_Witness ==
    \E w \in Answered :
        /\ req[w].stage = "saved"
        /\ ~req[w].supported
        /\ req[w].file_path = UPLOAD_FOLDER \o <<"t", "x", "t">>
        /\ req[w].resp = TextResponse(<<"Error: ", "Unsupported file type">>, 500)

\* Every response is a file attachment, a 4xx or a 5xx, and no handler
\* returns without one.
ResponseShape(r) ==
    /\ r.resp # NoResponse
    /\ \/ r.resp.status = 200 /\ r.resp.attachment
       \/ r.resp.status \in 400..599 /\ ~r.resp.attachment

\* C5 as stated: every exception raised while saving the upload, extracting
\* text, calling the model or sending the output file is turned into an HTTP
\* error response that carries the exception's message; every request ends
\* with a response that is an attachment, a 4xx or a 5xx.
C5_EveryExceptionBecomesError ==
    \A w \in Answered :
        LET r == req[w] IN
        /\ ResponseShape(r)
        /\ \A i \in 1..Len(r.raised) :
             r.raised[i].site \in {"save", "extract", "model", "send_txt", "send_pdf"} =>
                 r.resp = TextResponse(<<"Error: ", r.raised[i].e>>, 500)

\* C5 amended: an exception raised while saving the upload, extracting text,
\* calling the model or sending the text file is turned into the 500 response
\* "Error: <message>"; an exception raised while sending the PDF is caught by
\* the inner except clause and the handler goes on to the text file, so the
\* response is then the text attachment, or the 500 response "Error creating
\* output file: <the PDF error's message>", or the 500 response for an
\* exception raised while sending the text file.  Every request ends with a
\* response that is an attachment, a 4xx or a 5xx.
C5_ExceptionsBecomeErrorsOrFallback ==
    \A w \in Answered :
        LET r == req[w] IN
        /\ ResponseShape(r)
        /\ \A i \in 1..Len(r.raised) :
             LET x == r.raised[i] IN
             /\ x.site \in {"save", "extract", "model", "send_txt"} =>
                    r.resp = TextResponse(<<"Error: ", x.e>>, 500)
             /\ x.site = "send_pdf" =>
                    \/ IsTxtAttachment(r.resp)
                    \/ r.resp = TextResponse(<<"Error creating output file: ", x.e>>, 500)
                    \/ /\ "send_txt" \in Sites(r)
                       /\ r.resp.status = 500

\* C5 witness: sending the PDF raised and the request was answered with the
\* text attachment.
C5_Witness ==
    \E w \in Answered :
        /\ "send_pdf" \in Sites(req[w])
        /\ IsTxtAttachment(req[w].resp)


\* C6 as stated: for a request in the PDF branch with text T, when the
\* document build fails the response is the placeholder PDF, and when the
\* placeholder cannot be created either the response is a text attachment
\* containing T (the text file itself being written and sent without error).
C6_PdfDegradesToPlaceholderThenText ==
    \A w \in Answered :
        LET r == req[w] IN
        PdfRequested(r) =>
            /\ ("build" \in Sites(r) /\ Sites(r) \cap {"placeholder", "send_pdf"} = {}) =>
                   /\ IsPdfAttachment(r.resp)
                   /\ r.resp.body.file.kind = "placeholder"
            /\ ({"build", "placeholder"} \subseteq Sites(r)
                  /\ Sites(r) \cap {"textfile", "send_txt"} = {}) =>
                   /\ IsTxtAttachment(r.resp)
                   /\ r.resp.body.file.data = r.translated

\* C7: the body of a file response is whatever the fixed output path holds at
\* the moment send_file runs, not what the request itself produced.
C7_BodyIsWhatThePathHolds ==
    [][\A w \in Workers :
         (req[w].pc \in {"txt_send", "pdf_send"} /\ req'[w].pc = "done"
            /\ req'[w].resp.attachment) =>
               IF req[w].pc = "txt_send"
               THEN req'[w].resp.body.file = txtFile
               ELSE req'[w].resp.body.file = pdfFile]_vars

\* C7 witness: two requests for text output ran concurrently; one wrote its
\* own text and was answered with the text the other one wrote.
C7_Witness ==
    \E w \in Answered : \E v \in Workers \ {w} :
        /\ req[v].pc = "txt_send"
        /\ req[v].output_format = "txt" /\ req[w].output_format = "txt"
        /\ "txt" \in req[w].wrote
        /\ IsTxtAttachment(req[w].resp)
        /\ req[w].resp.body.file.by = req[v].id
        /\ req[w].resp.body.file.data = req[v].translated
        /\ req[w].translated # req[v].translated

\* The prompts of a sequence of logged calls.
Prompts(log) == [i \in 1..Len(log) |-> log[i].prompt]

\* The logged calls that returned a reply.
Replied == SelectSeq(calls, LAMBDA c : c.replied)

RECURSIVE IsSubsequence(_, _)
\* a is b with some elements left out
IsSubsequence(a, b) ==
    IF a = <<>> THEN TRUE
    ELSE IF b = <<>> THEN FALSE
    ELSE IF Head(a) = Head(b) THEN IsSubsequence(Tail(a), Tail(b))
    ELSE IsSubsequence(a, Tail(b))

IsPrefix(a, b) == Len(a) <= Len(b) /\ SubSeq(b, 1, Len(a)) = a

C9_AtMostOneModelCall ==
    \A w \in Workers :
        LET r == req[w] IN
        /\ r.sends <= 1
        /\ r.sends = 1 =>
             /\ r.given.file /\ r.given.filename /\ r.given.language
             /\ r.stage \in {"extracted", "translated"}
        /\ r.stage \in {"none", "validated", "saved"} => r.sends = 0
        /\ (r.pc = "done" /\ r.resp.status \in 400..499) => r.sends = 0
        /\ (r.stage = "extracted" /\ r.sends = 1) =>
             (r.pc = "done" /\ r.resp.status = 500)

\* C9 witness: a model call failed and the request ended with a 500 after
\* its single call.
C9_Witness ==
    \E w \in Answered :
        /\ req[w].sends = 1
        /\ req[w].stage = "extracted"
        /\ req[w].resp = TextResponse(<<"Error: ", "send_message failed">>, 500)

\* C10 as stated: in sequential execution a PDF attachment is a file written
\* during the request that sends it.
C10_PdfIsOfThisRequest ==
    \A w \in Answered :
        IsPdfAttachment(req[w].resp) =>
            /\ req[w].resp.body.file.by = req[w].id
            /\ "pdf" \in req[w].wrote

==========================================================================
